---- MODULE Spec2Model ----
(***************************************************************************)
(* Model of src/qr_scanner.py: the frame-polling loop of main(), the       *)
(* deduplication window (should_process_qr / clean_old_qrs), the URL       *)
(* classifier (is_valid_url) and the two reactions (open_url,              *)
(* send_to_website).                                                       *)
(*                                                                         *)
(* Time is the value time.time() returns, counted in whole seconds from    *)
(* the start of the run.  Python's None is the string "None".              *)
(***************************************************************************)
EXTENDS Integers, Sequences, FiniteSets, TLC

VARIABLES
    now,            \* the value time.time() returns
    recent_qrs,     \* module-level dict: payload -> time of last acceptance
    lastOp,         \* direct-call driver: the last call made and its result
    accLog,         \* direct-call driver: per payload, the times it was accepted
    shadow_qrs,     \* direct-call driver: the dict of the same calls, never swept
    cls,            \* direct-call driver: an is_valid_url call and its result
    AUTO_OPEN_URLS, \* setting: open URLs in the browser
    SEND_TO_WEB,    \* setting: send detections to the website
    pc,             \* position of main(): the statement about to run
    frame_base64,   \* main(): first value returned by fetch_camera_frame
    timestamp,      \* main(): second value returned by fetch_camera_frame
    frame,          \* main(): the decoded frame
    last_timestamp, \* main(): token of the last processed frame
    frame_count,    \* main(): frames observed
    qr_count,       \* main(): detections accepted
    qr_codes,       \* main(): detections of the current frame
    qi,             \* main(): position of the for loop in qr_codes
    decodes,        \* observer: calls of decode_frame so far
    pattern,        \* observer: fetches so far that follow [T1, T1, T2, T2]
    disp,           \* observer: reactions issued for the accepted detection
    win,            \* observer: per payload, the cooldown window of its detections
    handled,        \* observer: payloads of the current frame handled so far
    new_frames,     \* observer: fetches that returned a new frame
    accepts,        \* observer: should_process_qr calls of main() that returned True
    swept,          \* observer: the last finished iteration called clean_old_qrs
    signal,         \* observer: a shutdown signal arrived in this iteration
    reported        \* the statistics printed by the finally block

None == "None"

(*------------------------------ settings --------------------------------*)
SCAN_COOLDOWN == 5
SHOW_PREVIEW == TRUE

SWEEP_EVERY == 100

(*------------------------------- bounds ---------------------------------*)
MaxTime == 12
MaxClock == 5
MaxFrames == 3
MaxSeen == 3
MaxUrlLen == 5

(*------------------------------ payloads --------------------------------*)
UrlPayload  == "https://example.com/x"
TextPayload == "hello world"
Payloads == {UrlPayload, TextPayload}

\* The characters of a payload, in order.
Chars(str) ==
    CASE str = UrlPayload  -> <<"h", "t", "t", "p", "s", ":", "/", "/", "e", "x", "a", "m", "p", "l", "e", ".", "c", "o", "m", "/", "x">>
      [] str = TextPayload -> <<"h", "e", "l", "l", "o", " ", "w", "o", "r", "l", "d">>
      [] str = "mailto:a@b.com" -> <<"m", "a", "i", "l", "t", "o", ":", "a", "@", "b", ".", "c", "o", "m">>
      [] str = "//example.com" -> <<"/", "/", "e", "x", "a", "m", "p", "l", "e", ".", "c", "o", "m">>
      [] str = "http://[::1" -> <<"h", "t", "t", "p", ":", "/", "/", "[", ":", ":", "1">>

(*----------------------------- classifier -------------------------------*)
Letters == {"a", "b", "c", "d", "e", "f", "g", "h", "i", "j", "k", "l", "m",
            "n", "o", "p", "q", "r", "s", "t", "u", "v", "w", "x", "y", "z"}
Digits == {"0", "1", "2", "3", "4", "5", "6", "7", "8", "9"}
scheme_chars == Letters \cup Digits \cup {"+", "-", "."}

\* str.find: the first position (from 1) of a character of set cs at or
\* after position from, 0 when there is none.
Find(url, cs, from) ==
    LET hits == {i \in from..Len(url) : url[i] \in cs}
    IN  IF hits = {} THEN 0 ELSE CHOOSE i \in hits : \A j \in hits : i <= j

\* urllib.parse.urlparse(url), as far as scheme and netloc go; raised is the
\* ValueError for unbalanced brackets in the netloc.
urlparse(url) ==
    LET i == Find(url, {":"}, 1)
        hasScheme == /\ i > 1
                     /\ url[1] \in Letters
                     /\ {k \in 1..(i - 1) : url[k] \notin scheme_chars} = {}
        scheme == IF hasScheme THEN SubSeq(url, 1, i - 1) ELSE <<>>
        rest == IF hasScheme THEN SubSeq(url, i + 1, Len(url)) ELSE url
        hasNetloc == Len(rest) >= 2 /\ rest[1] = "/" /\ rest[2] = "/"
        delim == Find(rest, {"/", "?", "#"}, 3)
        netloc == IF ~hasNetloc THEN <<>>
                  ELSE IF delim = 0 THEN SubSeq(rest, 3, Len(rest))
                  ELSE SubSeq(rest, 3, delim - 1)
        open == {k \in DOMAIN netloc : netloc[k] = "["} # {}
        close == {k \in DOMAIN netloc : netloc[k] = "]"} # {}
    IN  [scheme |-> scheme, netloc |-> netloc, raised |-> open # close]

\* is_valid_url(url): all([result.scheme, result.netloc]), False on error;
\* url is the string as its sequence of characters.
is_valid_url_scheme_only(url) ==
    LET result == urlparse(url)
    IN  IF result.raised THEN FALSE
        ELSE result.scheme # <<>>

is_valid_url(url) ==
    LET result == urlparse(url)
    IN  IF result.raised THEN FALSE
        ELSE result.scheme # <<>> /\ result.netloc # <<>>

\* Line 213, is_url = is_valid_url(qr_data), for each payload a frame can
\* carry.
is_url_of == [p \in Payloads |-> is_valid_url(Chars(p))]

(*--------------------------- deduplication ------------------------------*)
\* A dict is a function whose DOMAIN is its key set.
EmptyDict == [k \in {} |-> 0]

DictSet(d, k, v) == [x \in (DOMAIN d) \cup {k} |-> IF x = k THEN v ELSE d[x]]

\* should_process_qr(qr_data) evaluated at time.time() = current_time on
\* dict d: the returned value and the dict afterwards.
should_process_qr_le(d, qr_data, current_time) ==
    IF qr_data \in DOMAIN d /\ current_time - d[qr_data] <= SCAN_COOLDOWN
    THEN [ret |-> FALSE, dict |-> d]
    ELSE [ret |-> TRUE,  dict |-> DictSet(d, qr_data, current_time)]

should_process_qr_refresh(d, qr_data, current_time) ==
    IF qr_data \in DOMAIN d /\ current_time - d[qr_data] < SCAN_COOLDOWN
    THEN [ret |-> FALSE, dict |-> DictSet(d, qr_data, current_time)]
    ELSE [ret |-> TRUE,  dict |-> DictSet(d, qr_data, current_time)]

should_process_qr_gt(d, qr_data, current_time) ==
    IF qr_data \in DOMAIN d /\ current_time - d[qr_data] > SCAN_COOLDOWN
    THEN [ret |-> FALSE, dict |-> d]
    ELSE [ret |-> TRUE,  dict |-> DictSet(d, qr_data, current_time)]

should_process_qr_norecord(d, qr_data, current_time) ==
    IF qr_data \in DOMAIN d /\ current_time - d[qr_data] < SCAN_COOLDOWN
    THEN [ret |-> FALSE, dict |-> d]
    ELSE [ret |-> TRUE,  dict |-> d]

should_process_qr(d, qr_data, current_time) ==
    IF qr_data \in DOMAIN d /\ current_time - d[qr_data] < SCAN_COOLDOWN
    THEN [ret |-> FALSE, dict |-> d]
    ELSE [ret |-> TRUE,  dict |-> DictSet(d, qr_data, current_time)]

\* clean_old_qrs() evaluated at time.time() = current_time on dict d.
clean_old_qrs_inverted(d, current_time) ==
    LET expired_qrs == {qr \in DOMAIN d : current_time - d[qr] < SCAN_COOLDOWN * 2}
    IN  [qr \in (DOMAIN d) \ expired_qrs |-> d[qr]]

clean_old_qrs_ge(d, current_time) ==
    LET expired_qrs == {qr \in DOMAIN d : current_time - d[qr] >= SCAN_COOLDOWN * 2}
    IN  [qr \in (DOMAIN d) \ expired_qrs |-> d[qr]]

clean_old_qrs_no_margin(d, current_time) ==
    LET expired_qrs == {qr \in DOMAIN d : current_time - d[qr] > SCAN_COOLDOWN \div 2}
    IN  [qr \in (DOMAIN d) \ expired_qrs |-> d[qr]]

clean_old_qrs(d, current_time) ==
    LET expired_qrs == {qr \in DOMAIN d : current_time - d[qr] > SCAN_COOLDOWN * 2}
    IN  [qr \in (DOMAIN d) \ expired_qrs |-> d[qr]]

(*---------------------------- frame source -----------------------------*)
\* Frame tokens the store hands out.
Tokens == {"T1", "T2"}

\* Frame payloads that decode into an image, named by what the image shows.
Images == {"img_blank", "img_url_url", "img_text_url", "img_badutf8"}

\* Values of the 'frame' field: absent, JSON null, the empty string, a
\* payload that does not decode into an image, or an image.
FrameFields == {"missing", "null", "", "garbage"} \cup Images

\* Values of the 'timestamp' field: absent, JSON null, or a token.
TimestampFields == {"missing", "null"} \cup Tokens

\* What requests.get can come back with.  error: the call raised;
\* json: what response.json() yields ("invalid": it raises).
Resp(e, c, j, f, t) ==
    [error |-> e, status_code |-> c, json |-> j, frame |-> f, timestamp |-> t]

Responses ==
    {Resp(TRUE, 0, "none", "missing", "missing")}
    \cup {Resp(FALSE, 404, "none", "missing", "missing"),
          Resp(FALSE, 500, "object", "img_blank", "T1")}
    \cup {Resp(FALSE, 200, j, "missing", "missing") :
            j \in {"invalid", "null", "empty", "list"}}
    \cup {Resp(FALSE, 200, "object", f, t) :
            f \in FrameFields, t \in TimestampFields}

\* The responses the frame-store contract counts as "no frame available".
IsFailure(r) ==
    \/ r.error
    \/ r.status_code # 200
    \/ r.json # "object"
    \/ r.frame = "missing"

\* fetch_camera_frame(), given the response of requests.get.
fetch_camera_frame(r) ==
    IF r.error THEN <<None, None>>                      \* except Exception
    ELSE IF r.status_code = 200
    THEN IF r.json = "invalid" THEN <<None, None>>     \* json() raises
         ELSE IF r.json \in {"null", "empty"} THEN <<None, None>>
         ELSE IF r.json = "list" THEN <<None, None>>   \* data['frame'] raises
         ELSE IF r.frame # "missing"
         THEN <<(IF r.frame = "null" THEN None ELSE r.frame),
                (IF r.timestamp = "missing" THEN "unknown"
                 ELSE IF r.timestamp = "null" THEN None ELSE r.timestamp)>>
         ELSE <<None, None>>
    ELSE <<None, None>>

\* Python truthiness of a frame payload.
Truthy(x) == x # None /\ x # ""

\* Line 189: frame_base64 and timestamp != last_timestamp.
IsNewFrame_frame_only(fb, ts, last) == Truthy(fb)

IsNewFrame_token_only(fb, ts, last) == ts # last

IsNewFrame_not_none(fb, ts, last) == fb # None /\ ts # last

IsNewFrame(fb, ts, last) == Truthy(fb) /\ ts # last

\* decode_frame(base64_string): the image, or None.
decode_frame_passthrough(base64_string) == base64_string

decode_frame(base64_string) ==
    IF base64_string \in Images THEN base64_string ELSE None

\* scan_qr_codes(image): the payloads found, in the detector's order;
\* raised when code.data.decode('utf-8') fails.
scan_qr_codes(image) ==
    CASE image = "img_blank"    -> [raised |-> FALSE, codes |-> <<>>]
      [] image = "img_url_url"  -> [raised |-> FALSE, codes |-> <<UrlPayload, UrlPayload>>]
      [] image = "img_text_url" -> [raised |-> FALSE, codes |-> <<TextPayload, UrlPayload>>]
      [] image = "img_badutf8"  -> [raised |-> TRUE,  codes |-> <<>>]
      [] OTHER                  -> [raised |-> TRUE,  codes |-> <<>>]

(*------------------------------ reactions -------------------------------*)
\* send_to_website(qr_data, qr_type, is_url): the event it posts.
send_to_website_always_opened(qr_data, qr_type, is_url, auto_open) ==
    [data |-> qr_data, type |-> qr_type, is_url |-> is_url,
     status |-> IF is_url THEN "opened" ELSE "detected"]

send_to_website(qr_data, qr_type, is_url, auto_open) ==
    [data |-> qr_data, type |-> qr_type, is_url |-> is_url,
     status |-> IF is_url /\ auto_open THEN "opened" ELSE "detected"]

\* Lines 217-225: where main() goes once a detection is classified, and
\* once open_url has returned.
after_classify_ignores_setting(is_url, auto_open, send) ==
    IF is_url THEN "Open"
    ELSE IF send THEN "Publish" ELSE "ForQr"

after_classify_publish_first(is_url, auto_open, send) ==
    IF send THEN "Publish"
    ELSE IF is_url /\ auto_open THEN "Open" ELSE "ForQr"

after_classify(is_url, auto_open, send) ==
    IF is_url /\ auto_open THEN "Open"
    ELSE IF send THEN "Publish" ELSE "ForQr"

after_open_no_publish(send) == "ForQr"

after_open(send) == IF send THEN "Publish" ELSE "ForQr"

(*------------------------------ main loop -------------------------------*)
vars == <<now, recent_qrs, lastOp, accLog, shadow_qrs, cls, AUTO_OPEN_URLS,
          SEND_TO_WEB, pc, frame_base64, timestamp, frame, last_timestamp,
          frame_count, qr_count, qr_codes, qi, decodes, pattern, disp, win,
          handled, new_frames, accepts, swept, signal, reported>>

settings == <<AUTO_OPEN_URLS, SEND_TO_WEB>>
driver == <<lastOp, accLog, shadow_qrs, cls>>
locals == <<frame_base64, timestamp, frame, qr_codes, qi>>
loop == <<pc, locals, last_timestamp, frame_count, qr_count, decodes, pattern,
          disp, win, handled, new_frames, accepts, swept, signal, reported>>

NoOp == [op |-> "none"]

\* The time of the latest acceptance in a log, -1 when there is none.
LastAccepted(log) == IF log = <<>> THEN -1 ELSE log[Len(log)]

\* No accepted detection is being reacted to.
\* is_url is main()'s local of that name (line 215).
NoDisp == [data |-> None, is_url |-> FALSE, opens |-> 0, open_ok |-> "none",
           pubs |-> 0, pub_ok |-> "none", status |-> None]

\* No is_valid_url call was made by the driver.
NoCls == [url |-> <<>>, called |-> FALSE, ret |-> FALSE]

NoWindow == [start |-> -1, seen |-> 0, accepted |-> 0]

\* The fetch sequence of the frame-change example.
ExampleTokens == <<"T1", "T1", "T2", "T2">>

Running == pc \notin {"Stopped", "Crashed"}

\* Module load and the start of main() (lines 23-29, 181-183).
InitMain ==
    /\ now = 0
    /\ recent_qrs = EmptyDict
    /\ lastOp = NoOp
    /\ accLog = [p \in Payloads |-> <<>>]
    /\ shadow_qrs = EmptyDict
    /\ AUTO_OPEN_URLS \in BOOLEAN
    /\ SEND_TO_WEB \in BOOLEAN
    /\ pc = "Fetch"
    /\ frame_base64 = None
    /\ timestamp = None
    /\ frame = None
    /\ last_timestamp = None
    /\ frame_count = 0
    /\ qr_count = 0
    /\ qr_codes = <<>>
    /\ qi = 0
    /\ decodes = 0
    /\ pattern = 0
    /\ disp = NoDisp
    /\ win = [p \in Payloads |-> NoWindow]
    /\ handled = <<>>
    /\ new_frames = 0
    /\ accepts = 0
    /\ swept = FALSE
    /\ signal = "none"
    /\ reported = <<>>

Init ==
    /\ InitMain
    /\ cls = NoCls

\* The settings as the source sets them (lines 26-27).
InitDedup ==
    /\ Init
    /\ AUTO_OPEN_URLS = TRUE
    /\ SEND_TO_WEB = TRUE

\* The wall clock advances while main() runs, up to time max.
TickTo(max) ==
    /\ Running
    /\ now < max
    /\ now' = now + 1
    /\ UNCHANGED <<recent_qrs, driver, settings, loop>>

Tick == TickTo(MaxClock)

\* Lines 187-191: fetch, and the test for a new frame; the frame store
\* answers with one of the responses rs.
FetchFrom(rs) ==
    /\ pc = "Fetch"
    /\ \E r \in rs :
        LET fb == fetch_camera_frame(r)[1]
            ts == fetch_camera_frame(r)[2]
            new == IsNewFrame(fb, ts, last_timestamp)
        IN  /\ new => frame_count < MaxFrames
            /\ frame_base64' = fb
            /\ timestamp' = ts
            /\ pattern' = IF pattern \in 0..3 /\ Truthy(fb)
                             /\ ts = ExampleTokens[pattern + 1]
                          THEN pattern + 1 ELSE -1
            /\ new_frames' = IF Truthy(fb) /\ ts # last_timestamp
                             THEN new_frames + 1 ELSE new_frames
            /\ IF new
               THEN /\ frame_count' = frame_count + 1
                    /\ last_timestamp' = ts
                    /\ pc' = "Decode"
               ELSE /\ UNCHANGED <<frame_count, last_timestamp>>
                    /\ pc' = "Sweep"
    /\ disp' = NoDisp
    /\ handled' = <<>>
    /\ signal' = "none"
    /\ UNCHANGED <<now, recent_qrs, driver, settings, frame, qr_codes, qi,
                   qr_count, decodes, win, accepts, swept, reported>>

Fetch == FetchFrom(Responses)

\* Lines 193-195: decode the payload.
Decode ==
    /\ pc = "Decode"
    /\ decodes' = decodes + 1
    /\ frame' = decode_frame(frame_base64)
    /\ pc' = IF frame' # None THEN "Scan" ELSE "Sweep"
    /\ UNCHANGED <<now, recent_qrs, driver, settings, frame_base64, timestamp,
                   qr_codes, qi, last_timestamp, frame_count, qr_count,
                   pattern, disp, win, handled, new_frames, accepts, swept,
                   signal, reported>>

\* Lines 255-264 for an exception other than KeyboardInterrupt: main() has
\* no handler for it, the finally block reports the statistics and the
\* process ends; main()'s locals end with it.
Crash ==
    /\ pc' = "Crashed"
    /\ frame_base64' = None
    /\ timestamp' = None
    /\ frame' = None
    /\ qr_codes' = <<>>
    /\ qi' = 0
    /\ reported' = <<frame_count, qr_count>>
    /\ UNCHANGED signal

\* Lines 196-198: run the detector.  scan_qr_codes has no try block, so
\* what it raises leaves main().
Scan ==
    /\ pc = "Scan"
    /\ LET found == scan_qr_codes(frame)
       IN  IF found.raised
           THEN Crash
           ELSE /\ qr_codes' = found.codes
                /\ qi' = 1
                /\ pc' = IF found.codes # <<>> THEN "ForQr" ELSE "Preview"
                /\ UNCHANGED <<frame_base64, timestamp, frame, reported,
                               signal>>
    /\ UNCHANGED <<now, recent_qrs, driver, settings, last_timestamp,
                   frame_count, qr_count, decodes, pattern, disp, win,
                   handled, new_frames, accepts, swept>>

\* The window observer's record after a detection of a payload was handled.
Observe(w, accepted) ==
    LET inc == IF accepted THEN 1 ELSE 0
    IN  IF w.start = -1 \/ now - w.start >= SCAN_COOLDOWN
        THEN [start |-> now, seen |-> 1, accepted |-> inc]
        ELSE [start |-> w.start,
              seen |-> IF w.seen < MaxSeen THEN w.seen + 1 ELSE w.seen,
              accepted |-> w.accepted + inc]

\* Lines 201-222: the next detection: dedup check, count, classify.
\* interrupted: a KeyboardInterrupt arrives inside is_valid_url, whose bare
\* except (line 104) takes it for a parse failure and returns False.
HandleQr(interrupted) ==
    /\ pc = "ForQr"
    /\ IF qi > Len(qr_codes)
       THEN /\ ~interrupted
            /\ pc' = "Preview"
            /\ UNCHANGED <<recent_qrs, qr_count, qi, disp, win, handled,
                           accepts, signal>>
       ELSE LET qr_data == qr_codes[qi]
                r == should_process_qr(recent_qrs, qr_data, now)
                is_url == IF interrupted THEN FALSE ELSE is_url_of[qr_data]
            IN  /\ interrupted => r.ret
                /\ recent_qrs' = r.dict
                /\ win' = [win EXCEPT ![qr_data] = Observe(@, r.ret)]
                /\ handled' = Append(handled, qr_data)
                /\ accepts' = IF r.ret THEN accepts + 1 ELSE accepts
                /\ signal' = IF interrupted THEN "delivered" ELSE signal
                /\ IF ~r.ret
                   THEN /\ qi' = qi + 1
                        /\ pc' = "ForQr"
                        /\ UNCHANGED <<qr_count, disp>>
                   ELSE /\ qr_count' = qr_count + 1
                        /\ disp' = [NoDisp EXCEPT !.data = qr_data,
                                                  !.is_url = is_url]
                        /\ pc' = after_classify(is_url, AUTO_OPEN_URLS,
                                                SEND_TO_WEB)
                        /\ qi' = IF pc' = "ForQr" THEN qi + 1 ELSE qi
    /\ UNCHANGED <<now, driver, settings, frame_base64, timestamp, frame,
                   last_timestamp, frame_count, qr_codes, decodes, pattern,
                   new_frames, swept, reported>>

ForQr == HandleQr(FALSE)

\* KeyboardInterrupt while is_valid_url runs (lines 101-105).
InterruptClassify == HandleQr(TRUE)

\* Lines 219-220: open_url(qr_data); its result is not used.
Open ==
    /\ pc = "Open"
    /\ \E ok \in {"ok", "failed"} :
         disp' = [disp EXCEPT !.opens = @ + 1, !.open_ok = ok]
    /\ pc' = after_open(SEND_TO_WEB)
    /\ qi' = IF pc' = "ForQr" THEN qi + 1 ELSE qi
    /\ UNCHANGED <<now, recent_qrs, driver, settings, frame_base64, timestamp,
                   frame, last_timestamp, frame_count, qr_count, qr_codes,
                   decodes, pattern, win, handled, new_frames, accepts, swept,
                   signal, reported>>

\* Lines 224-225: send_to_website(qr_data, qr['type'], is_url).
Publish ==
    /\ pc = "Publish"
    /\ LET qr_data == qr_codes[qi]
           event == send_to_website(qr_data, "QRCODE", disp.is_url,
                                    AUTO_OPEN_URLS)
       IN  \E ok \in {"ok", "failed"} :
             disp' = [disp EXCEPT !.pubs = @ + 1, !.pub_ok = ok,
                                  !.status = event.status]
    /\ pc' = "ForQr"
    /\ qi' = qi + 1
    /\ UNCHANGED <<now, recent_qrs, driver, settings, frame_base64, timestamp,
                   frame, last_timestamp, frame_count, qr_count, qr_codes,
                   decodes, pattern, win, handled, new_frames, accepts, swept,
                   signal, reported>>

\* The loop is left: the finally block (lines 258-264) reports the
\* statistics and the process ends; main()'s locals end with it.
Stop ==
    /\ pc' = "Stopped"
    /\ frame_base64' = None
    /\ timestamp' = None
    /\ frame' = None
    /\ qr_codes' = <<>>
    /\ qi' = 0
    /\ reported' = <<frame_count, qr_count>>
    /\ signal' = "delivered"

\* Lines 234-248: the preview window and its quit key.
Preview ==
    /\ pc = "Preview"
    /\ \/ pc' = "Sweep" /\ UNCHANGED <<locals, reported, signal>>
       \/ SHOW_PREVIEW /\ Stop
    /\ UNCHANGED <<now, recent_qrs, driver, settings, last_timestamp,
                   frame_count, qr_count, decodes, pattern, disp, win,
                   handled, new_frames, accepts, swept>>

\* Lines 250-253: the periodic sweep, then the sleep before the next fetch.
\* The locals are assigned again (line 187 on) before their next use, so
\* their old values are dropped here.
Sweep ==
    /\ pc = "Sweep"
    /\ recent_qrs' = IF frame_count % SWEEP_EVERY = 0
                     THEN clean_old_qrs(recent_qrs, now) ELSE recent_qrs
    /\ pc' = "Fetch"
    /\ frame_base64' = None
    /\ timestamp' = None
    /\ frame' = None
    /\ qr_codes' = <<>>
    /\ qi' = 0
    /\ swept' = (frame_count % SWEEP_EVERY = 0)
    /\ UNCHANGED <<now, driver, settings, last_timestamp, frame_count,
                   qr_count, decodes, pattern, disp, win, handled, new_frames,
                   accepts, signal, reported>>

\* Lines 255-264: KeyboardInterrupt, at any point of the loop.
Interrupt ==
    /\ Running
    /\ Stop
    /\ UNCHANGED <<now, recent_qrs, driver, settings, last_timestamp,
                   frame_count, qr_count, decodes, pattern, disp, win,
                   handled, new_frames, accepts, swept>>

Next ==
    \/ Tick \/ Fetch \/ Decode \/ Scan \/ ForQr \/ Open \/ Publish
    \/ Preview \/ Sweep \/ Interrupt \/ InterruptClassify

Spec == Init /\ [][Next]_vars

(*---------------- the loop left to run, for progress -------------------*)
\* A frame store that fails, or serves one frame and then no newer one:
\* the same frame under the same token.
LiveResponses ==
    {Resp(TRUE, 0, "none", "missing", "missing"),
     Resp(FALSE, 200, "object", "img_url_url", "T1")}

FetchLive == FetchFrom(LiveResponses)

TickLive == TickTo(MaxTime)

NextLive ==
    \/ TickLive \/ FetchLive \/ Decode \/ Scan \/ ForQr \/ Open \/ Publish
    \/ Preview \/ Sweep \/ Interrupt \/ InterruptClassify

\* The statement main() is at; one at most is enabled, by pc.
LoopStep ==
    FetchLive \/ Decode \/ Scan \/ ForQr \/ Open \/ Publish \/ Preview \/ Sweep

\* main() is a sequential loop that runs on unless it is stopped: the
\* statement it has reached is executed, and time passes.  Nothing makes the
\* shutdown signals arrive or the frame store serve new frames.
Fairness == WF_vars(LoopStep) /\ WF_vars(TickLive)

SpecLive == InitDedup /\ [][NextLive]_vars /\ Fairness

(*------------------------- classifier, called directly ------------------*)
\* Characters the generated strings are made of: a letter, a digit, the
\* scheme and authority delimiters, a path delimiter and a bracket.
UrlAlphabet == {"a", "1", ":", "/", "?", "["}

ExampleUrls ==
    {"https://example.com/x", "hello world", "mailto:a@b.com",
     "//example.com", "http://[::1"}

\* The strings is_valid_url is called with.
UrlInputs ==
    UNION {[1..n -> UrlAlphabet] : n \in 0..MaxUrlLen}
        \cup {Chars(e) : e \in ExampleUrls}

InitClassify ==
    /\ InitMain
    /\ AUTO_OPEN_URLS = TRUE
    /\ SEND_TO_WEB = TRUE
    /\ cls \in [url : UrlInputs, called : {FALSE}, ret : {FALSE}]

\* is_valid_url(cls.url) is called and its result kept.
Classify ==
    /\ ~cls.called
    /\ cls' = [cls EXCEPT !.called = TRUE, !.ret = is_valid_url(cls.url)]
    /\ UNCHANGED <<now, recent_qrs, lastOp, accLog, shadow_qrs, settings, loop>>

NextClassify == Classify

SpecClassify == InitClassify /\ [][NextClassify]_vars

(*----------------- direct calls of the dedup functions ------------------*)
\* Time passes between two calls.
Elapse ==
    /\ now < MaxTime
    /\ now' = now + 1
    /\ lastOp' = NoOp
    /\ UNCHANGED <<recent_qrs, accLog, shadow_qrs, cls, settings, loop>>

\* A caller invokes should_process_qr(qr_data).
CallShouldProcess ==
    /\ \E qr_data \in Payloads :
        LET r == should_process_qr(recent_qrs, qr_data, now)
            unswept == should_process_qr(shadow_qrs, qr_data, now)
        IN
        /\ recent_qrs' = r.dict
        /\ shadow_qrs' = unswept.dict
        /\ lastOp' = [op |-> "should_process_qr", data |-> qr_data,
                      ret |-> r.ret, at |-> now,
                      prev |-> LastAccepted(accLog[qr_data]),
                      unswept |-> unswept.ret]
        /\ accLog' = IF r.ret
                     THEN [accLog EXCEPT ![qr_data] = Append(@, now)]
                     ELSE accLog
    /\ UNCHANGED <<now, cls, settings, loop>>

\* A caller invokes clean_old_qrs().
CallClean ==
    /\ recent_qrs' = clean_old_qrs(recent_qrs, now)
    /\ lastOp' = [op |-> "clean_old_qrs", at |-> now]
    /\ UNCHANGED <<now, accLog, shadow_qrs, cls, settings, loop>>

NextDedup == Elapse \/ CallShouldProcess \/ CallClean

SpecDedup == InitDedup /\ [][NextDedup]_vars

(*------------------------- dedup window claims --------------------------*)
IsShouldCall(o) == o.op = "should_process_qr"

\* C1: two calls of should_process_qr that return true for the same payload
\* are at least SCAN_COOLDOWN seconds apart, and a call made less than
\* SCAN_COOLDOWN after an acceptance of the same payload returns false,
\* whatever clean_old_qrs calls are interleaved.
C1_AtMostOnePerWindow ==
    /\ \A p \in Payloads : \A i, j \in DOMAIN accLog[p] :
          i < j => accLog[p][j] - accLog[p][i] >= SCAN_COOLDOWN
    /\ (IsShouldCall(lastOp) /\ lastOp.prev # -1
          /\ lastOp.at - lastOp.prev < SCAN_COOLDOWN) => ~lastOp.ret

\* A call one second short of the cooldown after an acceptance was rejected.
C1_Witness ==
    /\ IsShouldCall(lastOp)
    /\ lastOp.prev # -1
    /\ lastOp.at - lastOp.prev = SCAN_COOLDOWN - 1
    /\ ~lastOp.ret

\* C2: a call made SCAN_COOLDOWN or more after the latest acceptance of the
\* same payload returns true and stores the call time for the payload,
\* whether or not the entry was swept or the payload rejected in between.
C2_ReacceptAtBoundary ==
    (IsShouldCall(lastOp) /\ lastOp.prev # -1
       /\ lastOp.at - lastOp.prev >= SCAN_COOLDOWN)
    => /\ lastOp.ret
       /\ lastOp.data \in DOMAIN recent_qrs
       /\ recent_qrs[lastOp.data] = lastOp.at

\* A call exactly SCAN_COOLDOWN after the previous acceptance was accepted.
C2_Witness ==
    /\ IsShouldCall(lastOp)
    /\ lastOp.prev # -1
    /\ lastOp.at - lastOp.prev = SCAN_COOLDOWN
    /\ lastOp.ret
    /\ recent_qrs[lastOp.data] = lastOp.at

\* C3: a call of should_process_qr that returns false leaves recent_qrs
\* exactly as it was; the stored time of the payload is not refreshed.
C3_RejectChangesNothing ==
    [][(IsShouldCall(lastOp') /\ ~lastOp'.ret) => recent_qrs' = recent_qrs]_vars

\* A rejected call made later than the stored time, which is still the time
\* of the first acceptance.
C3_Witness ==
    /\ IsShouldCall(lastOp)
    /\ ~lastOp.ret
    /\ lastOp.at > lastOp.prev
    /\ recent_qrs[lastOp.data] = lastOp.prev

\* C4: clean_old_qrs removes exactly the entries whose age is strictly
\* greater than 2 * SCAN_COOLDOWN and leaves the others with their times;
\* in particular no entry younger than SCAN_COOLDOWN is removed.
C4_SweepExact ==
    [][lastOp'.op = "clean_old_qrs" =>
        /\ DOMAIN recent_qrs' =
              {k \in DOMAIN recent_qrs : now - recent_qrs[k] <= 2 * SCAN_COOLDOWN}
        /\ \A k \in DOMAIN recent_qrs' : recent_qrs'[k] = recent_qrs[k]
        /\ \A k \in DOMAIN recent_qrs :
              now - recent_qrs[k] < SCAN_COOLDOWN => k \in DOMAIN recent_qrs']_vars

\* After a sweep, an entry of age exactly 2 * SCAN_COOLDOWN is still there
\* and an older one is gone.
C4_Witness ==
    /\ lastOp.op = "clean_old_qrs"
    /\ \E p, q \in Payloads :
          /\ p \in DOMAIN recent_qrs
          /\ lastOp.at - recent_qrs[p] = 2 * SCAN_COOLDOWN
          /\ q \notin DOMAIN recent_qrs
          /\ accLog[q] # <<>>
          /\ lastOp.at - LastAccepted(accLog[q]) > 2 * SCAN_COOLDOWN

(*--------------------------- main loop claims ---------------------------*)
\* The step is the fetch of a poll cycle, with its new-frame test.
FetchStep == pc = "Fetch" /\ pc' \in {"Decode", "Sweep"}

\* C5 as stated: a poll cycle goes on to decode if and only if the fetch
\* returned a frame (anything but none) whose token differs from the
\* last-seen token.
C5_DecodeIffFrameReturned ==
    [][FetchStep =>
        ((pc' = "Decode") <=>
            (frame_base64' # None /\ timestamp' # last_timestamp))]_vars

\* C5 amended: a poll cycle goes on to decode if and only if the fetch
\* returned a non-empty frame payload whose token differs from the last-seen
\* token; the last-seen token and the frame counter change in such cycles
\* only; and the fetch sequence [T1, T1, T2, T2] gives exactly 2 decode
\* attempts.
C5_FrameChange ==
    /\ [][FetchStep =>
            ((pc' = "Decode") <=>
                (Truthy(frame_base64') /\ timestamp' # last_timestamp))]_vars
    /\ [][(last_timestamp' # last_timestamp \/ frame_count' # frame_count) =>
            /\ FetchStep /\ pc' = "Decode"
            /\ frame_count' = frame_count + 1
            /\ last_timestamp' = timestamp']_vars
    /\ [](pattern = 4 => decodes = 2)

\* The four fetches of the example were made and two frames were decoded.
C5_Witness == pattern = 4 /\ decodes = 2 /\ frame_count = 2

\* The reactions the settings ask for, for the detection being reacted to.
OpensDue == IF disp.is_url /\ AUTO_OPEN_URLS THEN 1 ELSE 0
PublishesDue == IF SEND_TO_WEB THEN 1 ELSE 0

\* C6: for an accepted detection open_url is called once if the payload is
\* a URL and AUTO_OPEN_URLS is on, never otherwise, and send_to_website is
\* called once if SEND_TO_WEB is on, never otherwise, whatever the
\* classification and the outcome of open_url.
C6_ReactionsAsConfigured ==
    disp.data # None =>
        /\ disp.opens <= OpensDue
        /\ disp.pubs <= PublishesDue
        /\ pc = "Open" => disp.opens = 0 /\ disp.pubs = 0 /\ OpensDue = 1
        /\ pc = "Publish" => disp.opens = OpensDue /\ disp.pubs = 0
        /\ pc \in {"ForQr", "Preview", "Sweep", "Fetch"} =>
              disp.opens = OpensDue /\ disp.pubs = PublishesDue

\* A URL detection with both settings on got one open_url call, which
\* failed, and one send_to_website call.
C6_Witness ==
    /\ pc = "ForQr"
    /\ disp.data = UrlPayload
    /\ AUTO_OPEN_URLS /\ SEND_TO_WEB
    /\ disp.opens = 1 /\ disp.open_ok = "failed"
    /\ disp.pubs = 1

\* C7: the status of the posted event is "opened" exactly when the payload
\* is a URL, AUTO_OPEN_URLS is on and open_url was called earlier for the
\* same detection, whether that call succeeded or not; otherwise it is
\* "detected".
C7_StatusReflectsIntent ==
    disp.pubs >= 1 =>
        /\ disp.status \in {"opened", "detected"}
        /\ (disp.status = "opened") <=>
              (disp.is_url /\ AUTO_OPEN_URLS /\ disp.opens = 1)

\* An event was posted with status "opened" after open_url had failed.
C7_Witness ==
    /\ disp.pubs = 1
    /\ disp.status = "opened"
    /\ disp.open_ok = "failed"

\* The detection main() is about to handle lies in the cooldown window of
\* an earlier detection of the same payload.
InWindow ==
    /\ pc = "ForQr"
    /\ qi <= Len(qr_codes)
    /\ win[qr_codes[qi]].start # -1
    /\ now - win[qr_codes[qi]].start < SCAN_COOLDOWN

\* C8: of the detections of one payload handled within SCAN_COOLDOWN of the
\* first of them, in one frame or in several, exactly one is accepted and
\* dispatched: handling a later one leaves qr_count alone and starts no
\* reaction.
C8_OneDispatchPerWindow ==
    /\ [](\A p \in Payloads : win[p].start # -1 => win[p].accepted = 1)
    /\ [][InWindow =>
            /\ qr_count' = qr_count
            /\ disp' = disp
            /\ pc' \in {"ForQr", "Stopped"}]_vars

\* Three frames showing the same two payloads were handled within the
\* window: six detections, each payload accepted once.
C8_Witness ==
    /\ win[TextPayload].seen = 3
    /\ win[TextPayload].accepted = 1
    /\ win[UrlPayload].seen = 3
    /\ win[UrlPayload].accepted = 1
    /\ frame_count = 3
    /\ qr_count = 2

\* C9: when the detector raises on a frame, main() carries on as if nothing
\* was detected: the process does not end.
C9_DetectionFailureCaught ==
    [][(pc = "Scan" /\ scan_qr_codes(frame).raised) => pc' # "Crashed"]_vars

\* C10: every failing response makes fetch_camera_frame return
\* (None, None); the cycle that gets it goes straight to the end of the
\* iteration with last_timestamp, frame_count, qr_count and the decode
\* count unchanged and no entry of recent_qrs added or re-timed, and the loop
\* fetches again.
C10_FetchFailsSoftly ==
    /\ [](\A r \in Responses :
            IsFailure(r) => fetch_camera_frame(r) = <<None, None>>)
    /\ [][(FetchStep /\ frame_base64' = None /\ timestamp' = None) =>
            /\ pc' = "Sweep"
            /\ UNCHANGED <<last_timestamp, frame_count, qr_count, decodes,
                           recent_qrs, win>>]_vars
    /\ [][(pc = "Sweep" /\ frame_base64 = None /\ timestamp = None
             /\ pc' # "Stopped") =>
            /\ pc' \in {"Sweep", "Fetch"}
            /\ UNCHANGED <<last_timestamp, frame_count, qr_count, decodes, win>>
            /\ \A k \in DOMAIN recent_qrs' :
                  k \in DOMAIN recent_qrs /\ recent_qrs'[k] = recent_qrs[k]]_vars

\* A failed fetch in a run that already has a last-seen token and a dedup
\* entry.
C10_Witness ==
    /\ pc = "Sweep"
    /\ frame_base64 = None /\ timestamp = None
    /\ last_timestamp # None
    /\ recent_qrs # EmptyDict

\* C11: a failed open_url or send_to_website call ends nothing: after
\* open_url, failed or not, send_to_website is still called when SEND_TO_WEB
\* is on; after send_to_website, failed or not, main() goes on to the next
\* detection of the frame; neither call is made twice for one detection and
\* neither ends the process.
C11_DispatchFailureNotFatal ==
    /\ [][(pc = "Open" /\ disp'.opens > disp.opens) =>
            /\ pc' = (IF SEND_TO_WEB THEN "Publish" ELSE "ForQr")
            /\ qi' = (IF SEND_TO_WEB THEN qi ELSE qi + 1)
            /\ UNCHANGED <<qr_codes, qr_count, recent_qrs>>]_vars
    /\ [][(pc = "Publish" /\ disp'.pubs > disp.pubs) =>
            /\ pc' = "ForQr"
            /\ qi' = qi + 1
            /\ UNCHANGED <<qr_codes, qr_count, recent_qrs>>]_vars
    /\ [][(pc \in {"Open", "Publish"}) => pc' # "Crashed"]_vars
    /\ [](disp.opens <= 1 /\ disp.pubs <= 1)

\* Both calls failed for a detection and the loop is at its next fetch.
C11_Witness ==
    /\ pc = "Fetch"
    /\ disp.open_ok = "failed"
    /\ disp.pub_ok = "failed"

\* C12: clean_old_qrs runs once every SWEEP_EVERY poll cycles and in none
\* of the cycles in between; as SWEEP_EVERY exceeds 1, a poll cycle that ran
\* it is never directly followed by another that runs it.
C12_SweepEveryKCycles ==
    [][(pc = "Sweep" /\ pc' = "Fetch" /\ swept) => ~swept']_vars

\* C13: a shutdown signal delivered in any state of the loop leads to
\* Stopped, where the statistics are reported, and once Stopped is entered
\* nothing of the loop runs again: no fetch, decode, detection, acceptance,
\* dispatch or sweep.
C13_StoppedTerminalReachable ==
    /\ [](signal = "delivered" => pc = "Stopped" /\ reported # <<>>)
    /\ [][pc = "Stopped" => loop' = loop /\ recent_qrs' = recent_qrs]_vars

\* url reads scheme "://" host...: a first colon after a non-empty run of
\* scheme characters that starts with a letter, then two slashes, then at
\* least one character that does not end the authority.
ActionableShape(url) ==
    \E i \in 2..(Len(url) - 3) :
        /\ url[i] = ":"
        /\ \A k \in 1..(i - 1) : url[k] # ":" /\ url[k] \in scheme_chars
        /\ url[1] \in Letters
        /\ url[i + 1] = "/"
        /\ url[i + 2] = "/"
        /\ url[i + 3] \notin {"/", "?", "#"}

\* C14: is_valid_url reports an actionable URL exactly when the string
\* parses, without error, into a scheme and a network location that are both
\* non-empty.  A scheme-only string ("mailto:a@b.com"), a host-only or
\* scheme-less string ("//example.com", "hello world") and a parse failure
\* ("http://[::1") are plain data; "https://example.com/x" is actionable.
C14_Classifier ==
    cls.called =>
        LET result == urlparse(cls.url)
            brackets == {k \in DOMAIN cls.url : cls.url[k] \in {"[", "]"}}
        IN  /\ cls.ret = (/\ ~result.raised
                          /\ result.scheme # <<>>
                          /\ result.netloc # <<>>)
            /\ cls.ret => ActionableShape(cls.url)
            /\ ActionableShape(cls.url) /\ brackets = {} => cls.ret
            /\ cls.url = Chars("mailto:a@b.com") => ~cls.ret
            /\ cls.url = Chars("//example.com") => ~cls.ret
            /\ cls.url = Chars("hello world") => ~cls.ret
            /\ cls.url = Chars("http://[::1") => result.raised /\ ~cls.ret
            /\ cls.url = Chars("https://example.com/x") => cls.ret

C14_Witness ==
    /\ cls.url = Chars("https://example.com/x")
    /\ cls.called
    /\ cls.ret

\* C15: every should_process_qr call returns what it would have returned
\* had clean_old_qrs never been called: the dict kept without sweeps holds
\* the same times for the payloads still present and differs only by
\* entries the sweep removed.
C15_SweepTimingIrrelevant ==
    /\ IsShouldCall(lastOp) => lastOp.ret = lastOp.unswept
    /\ DOMAIN recent_qrs \subseteq DOMAIN shadow_qrs
    /\ \A p \in DOMAIN recent_qrs : recent_qrs[p] = shadow_qrs[p]

\* A payload is accepted again after a sweep removed its entry and that of
\* another payload.
C15_Witness ==
    /\ IsShouldCall(lastOp)
    /\ lastOp.ret
    /\ lastOp.prev # -1
    /\ lastOp.at - lastOp.prev > 2 * SCAN_COOLDOWN
    /\ \E q \in DOMAIN shadow_qrs : q \notin DOMAIN recent_qrs

\* C17: when the payload of a new-token frame does not decode, the cycle
\* goes straight on to the end of the iteration: no detector run, nothing
\* accepted or counted, nothing dispatched, and the loop is still running.
\* The token of the failed frame is by then the last-seen token, and a fetch
\* that returns the last-seen token is never decoded.
C17_DecodeFailureSkipsFrame ==
    /\ [][(pc = "Decode" /\ frame_base64 \notin Images /\ decodes' # decodes)
            => /\ pc' = "Sweep"
               /\ frame' = None
               /\ last_timestamp' = timestamp
               /\ UNCHANGED <<recent_qrs, qr_count, accepts, disp, handled,
                              qr_codes, win, frame_count, reported>>]_vars
    /\ [][(pc = "Fetch" /\ pc' \in {"Decode", "Sweep"}
              /\ timestamp' = last_timestamp)
            => pc' = "Sweep" /\ decodes' = decodes]_vars
    /\ [](pc = "Scan" => frame \in Images)

\* A frame that did not decode was skipped; its token is the last-seen one.
C17_Witness ==
    /\ pc = "Sweep"
    /\ frame_base64 = "garbage"
    /\ frame = None
    /\ last_timestamp = timestamp
    /\ decodes = 1
    /\ qr_count = 0

\* C18: the detections of a frame are handled in the detector's order, one
\* at a time: the detections handled so far are a prefix of qr_codes, and the
\* one being dispatched is the last of that prefix.  For one detection
\* open_url, when due, has been called before send_to_website is, and the
\* next fetch starts only from the end of the iteration, after the last
\* detection's reactions are complete.
C18_DispatchOrdering ==
    /\ [](pc \in {"ForQr", "Open", "Publish"} =>
            /\ Len(handled) = (IF pc = "ForQr" THEN qi - 1 ELSE qi)
            /\ Len(handled) <= Len(qr_codes)
            /\ handled = SubSeq(qr_codes, 1, Len(handled)))
    /\ [](pc \in {"Open", "Publish"} => disp.data = qr_codes[qi])
    /\ [](pc = "Open" => disp.opens = 0 /\ disp.pubs = 0)
    /\ [](pc = "Publish" => disp.opens = OpensDue /\ disp.pubs = 0)
    /\ [](pc = "Preview" => handled = qr_codes)
    /\ [][pc = "Open" /\ pc' # "Stopped" =>
            pc' \in {"Open", "Publish", "ForQr"} /\ handled' = handled]_vars
    /\ [][pc = "Publish" /\ pc' # "Stopped" =>
            pc' \in {"Publish", "ForQr"} /\ handled' = handled]_vars
    /\ [][pc # "Fetch" /\ pc' = "Fetch" =>
            /\ pc = "Sweep"
            /\ disp.data # None =>
                   disp.opens = OpensDue /\ disp.pubs = PublishesDue]_vars

\* The second detection of a frame, a URL, is at send_to_website after its
\* open_url call; the first detection, a text, was handled before it.
C18_Witness ==
    /\ pc = "Publish"
    /\ qr_codes = <<TextPayload, UrlPayload>>
    /\ qi = 2
    /\ handled = qr_codes
    /\ disp.data = UrlPayload
    /\ disp.opens = 1
    /\ win[TextPayload].accepted = 1

\* The step is a should_process_qr call of the loop.
DedupStep == pc = "ForQr" /\ handled' # handled

\* Both counters start at 0, never decrease, change by the loop's own
\* counting only, and are what the finally block reports.
StatisticsKept ==
    /\ frame_count = 0 /\ qr_count = 0
    /\ [][frame_count' >= frame_count /\ qr_count' >= qr_count]_vars
    /\ [][DedupStep =>
            qr_count' = (IF recent_qrs' # recent_qrs THEN qr_count + 1
                         ELSE qr_count)]_vars
    /\ [](qr_count = accepts)
    /\ [](Running => reported = <<>>)
    /\ [](~Running => reported = <<frame_count, qr_count>>)

\* C19 as stated: frame_count is the number of poll cycles in which a frame
\* (anything but none) with a changed token was fetched, qr_count the number
\* of should_process_qr calls that returned true; both start at 0, never
\* decrease and are reported when the loop is left.
C19_StatisticsAsStated ==
    /\ StatisticsKept
    /\ [][FetchStep =>
            frame_count' =
                (IF frame_base64' # None /\ timestamp' # last_timestamp
                 THEN frame_count + 1 ELSE frame_count)]_vars

\* C19 amended: frame_count is the number of poll cycles in which a
\* non-empty frame payload was fetched with a token different from the
\* last-seen token, qr_count the number of should_process_qr calls that
\* returned true; both start at 0, never decrease and are reported when the
\* loop is left.
C19_LoopStatistics ==
    /\ StatisticsKept
    /\ [](frame_count = new_frames)
    /\ [][FetchStep =>
            frame_count' =
                (IF Truthy(frame_base64') /\ timestamp' # last_timestamp
                 THEN frame_count + 1 ELSE frame_count)]_vars

\* After one frame with two accepted detections, a poll cycle fetched an
\* empty frame payload under a new token and counted nothing.
C19_Witness ==
    /\ pc = "Sweep"
    /\ frame_base64 = ""
    /\ timestamp \in Tokens
    /\ timestamp # last_timestamp
    /\ frame_count = 1
    /\ new_frames = 1
    /\ qr_count = 2
    /\ accepts = 2

\* C20: the entry of an accepted payload is in recent_qrs, with the time of
\* the acceptance, before open_url or send_to_website is called for it; these
\* calls leave recent_qrs alone whether they succeed or fail; and a payload
\* seen again less than SCAN_COOLDOWN after its acceptance is skipped without
\* any dispatch, also when its dispatch had failed.
C20_AcceptanceRecordedFirst ==
    /\ [](pc \in {"Open", "Publish"} =>
            /\ disp.data \in DOMAIN recent_qrs
            /\ recent_qrs[disp.data] = win[disp.data].start
            /\ recent_qrs[disp.data] <= now)
    /\ [][(pc = "Open" \/ pc = "Publish") => UNCHANGED recent_qrs]_vars
    /\ []((disp.data # None /\ pc \in {"ForQr", "Preview"}) =>
            /\ disp.data \in DOMAIN recent_qrs
            /\ recent_qrs[disp.data] = win[disp.data].start)
    /\ [][(/\ DedupStep
            /\ qr_codes[qi] \in DOMAIN recent_qrs
            /\ now - recent_qrs[qr_codes[qi]] < SCAN_COOLDOWN)
            => /\ pc' = "ForQr"
               /\ UNCHANGED <<disp, recent_qrs, qr_count>>]_vars

\* A URL was accepted, open_url and send_to_website both failed for it, and
\* its second detection in the same frame was skipped.
C20_Witness ==
    /\ pc = "ForQr"
    /\ qr_codes = <<UrlPayload, UrlPayload>>
    /\ handled = qr_codes
    /\ disp.data = UrlPayload
    /\ disp.open_ok = "failed"
    /\ disp.pub_ok = "failed"
    /\ UrlPayload \in DOMAIN recent_qrs
    /\ win[UrlPayload].seen = 2
    /\ win[UrlPayload].accepted = 1
    /\ qr_count = 1

\* The entry of payload p is older than twice the cooldown.
Stale(p) ==
    p \in DOMAIN recent_qrs /\ now - recent_qrs[p] > 2 * SCAN_COOLDOWN

\* C16: while the loop keeps polling, an entry older than
\* 2 * SCAN_COOLDOWN is eventually gone from recent_qrs, also when no new
\* frame arrives any more.
C16_EventualEviction ==
    \A p \in Payloads : Stale(p) ~> (~Stale(p) \/ ~Running)

====
